---- MODULE Spec2Model ----
(***************************************************************************)
(* Model of the harshit0410/LB load balancer (main.go): the LB request     *)
(* handler, the proxy ErrorHandler closure (retry / failover), the         *)
(* periodic HealthCheck loop and the UpdateConfig reload handler, running  *)
(* over the serverpool.ServerPool (backends + cursor).                     *)
(***************************************************************************)
EXTENDS Integers, Sequences, FiniteSets, TLC

\* ------------------------------------------------------------------ bounds
NumReq     == 1    \* concurrent client requests
NumReload  == 2    \* concurrent PUT /config requests
MaxTrace   == 11   \* length of a sequential pool-call trace (SpecPool)
MaxMarks   == 2    \* MarkBackendStatus calls inside a pool-call trace

Reqs     == 1..NumReq
Handlers == 1..NumReload

\* main(): go stopServer(wg, ctx, server2); go stopServer(wg, ctx, server)
StopTasks == 1..2

\* ------------------------------------------------------------ inputs
Addrs  == {"A", "B", "C"}
BadUrl == "bad"                       \* a token url.Parse rejects

\* config.json contents main() can start serving with
InitConfigs == { <<"A", "B">>, <<"A", "B", "C">> }

\* bodies of PUT /config: json |-> FALSE is a body json.Unmarshal rejects
Payloads ==
  { [json |-> FALSE, urls |-> <<>>],
    [json |-> TRUE,  urls |-> <<"C">>],
    [json |-> TRUE,  urls |-> <<"B", "C">>],
    [json |-> TRUE,  urls |-> <<"C", BadUrl>>],
    [json |-> TRUE,  urls |-> <<>>],
    [json |-> TRUE,  urls |-> <<"C", "C">>] }

VARIABLES
  backends,    \* serverPool.backends: sequence of [URL, Alive, id]
  cursor,      \* serverPool cursor (atomic counter)
  nextId,      \* identity of the next &backend.Backend{} allocated
  crashed,     \* log.Fatal has terminated the process
  pc,          \* per request: "routing" | "forwarding" | "done"
  attempts,    \* per request: context value Attempts (default 1)
  retries,     \* per request: context value Retry (default 0)
  peer,        \* per request: backend whose ReverseProxy is serving it
  response,    \* per request: status written to the client ("none" before)
  delivered,   \* per request: number of responses written
  selections,  \* per request: number of GetNextPeer() calls made for it
  forwards,    \* per request: forwards started on peer in this routing cycle
  pick,        \* per request: what its last GetNextPeer() call saw and returned
  hcPc,        \* health checker: "idle" | "running"
  hcList,      \* ids still to probe in the running cycle
  hcPassed,    \* failed-over ids that passed their probe in this cycle
  hcRemarked,  \* ids of hcPassed marked down again by failover in this cycle
  failedOver,  \* ids marked down by the failover path and not revived since
  rlPc,        \* per reload handler: "idle" | "adding" | "done"
  rlBody,      \* per reload handler: the payload being applied
  rlIdx,       \* per reload handler: position in addServerToPool's loop
  rlStatus,    \* per reload handler: HTTP status written (0 before)
  rlOld,       \* per reload handler: ids in the pool when the reload began
  rlAdded,     \* per reload handler: ids of the backends it has added
  trace,       \* SpecPool only: sequential GetNextPeer / MarkBackendStatus log
  ctxDone,     \* the signal context of main() has been cancelled
  tick,        \* a tick is buffered in the ticker's channel t.C
  hcWg,        \* counter of HealthCheck's wg parameter
  stopPc,      \* per stopServer task: "unstarted" | "waiting" | "done"
  stopWg,      \* per stopServer task: counter of its wg parameter
  mainPc,      \* main(): "starting" | "waiting" (in wg.Wait()) | "exited"
  mainWg       \* counter of main's wg

poolVars == <<backends, cursor, nextId, crashed>>
reqVars  == <<pc, attempts, retries, peer, response, delivered, selections,
              forwards, pick>>
hcVars   == <<hcPc, hcList, hcPassed, hcRemarked>>
rlVars   == <<rlPc, rlBody, rlIdx, rlStatus, rlOld, rlAdded>>
sdVars   == <<ctxDone, tick, hcWg, stopPc, stopWg, mainPc, mainWg>>
vars     == <<poolVars, reqVars, hcVars, rlVars, failedOver, trace, sdVars>>

\* ------------------------------------------------------------ Backend
NoPeer == [URL |-> "none", Alive |-> FALSE, id |-> 0]

NewBackend(u, i) == [URL |-> u, Alive |-> TRUE, id |-> i]

Ids(bs) == { bs[k].id : k \in 1..Len(bs) }

AnyAlive(bs) == \E k \in 1..Len(bs) : bs[k].Alive

IsAliveId(bs, i) == \E k \in 1..Len(bs) : bs[k].id = i /\ bs[k].Alive

Min(S) == CHOOSE x \in S : \A y \in S : x <= y

\* ------------------------------------------------------------ ServerPool
AddBackend(bs, b) == Append(bs, b)

RemoveAllBackend(bs) == <<>>

\* first backend with that address, 0 if there is none
FindByURL(bs, u) ==
  LET hits == { k \in 1..Len(bs) : bs[k].URL = u }
  IN  IF hits = {} THEN 0 ELSE Min(hits)

MarkBackendStatus(bs, u, alive) ==
  LET k == FindByURL(bs, u)
  IN  IF k = 0 THEN bs ELSE [bs EXCEPT ![k].Alive = alive]

SetAliveIdDownOnly(bs, i, alive) ==
  [k \in 1..Len(bs) |-> IF bs[k].id = i /\ ~alive
                        THEN [bs[k] EXCEPT !.Alive = FALSE] ELSE bs[k]]

\* b.SetAlive(alive) on the backend object with identity i
SetAliveId(bs, i, alive) ==
  [k \in 1..Len(bs) |-> IF bs[k].id = i THEN [bs[k] EXCEPT !.Alive = alive]
                                         ELSE bs[k]]

NextIndexPostIncrement(bs, cur) == (cur + 1) % Len(bs)

\* 0-based start index of the scan: the counter's value modulo len(backends)
NextIndex(bs, cur) == cur % Len(bs)

\* 1-based positions visited by the circular scan, in order
ScanOrder(bs, cur) ==
  [k \in 1..Len(bs) |-> ((NextIndex(bs, cur) + k - 1) % Len(bs)) + 1]

GetNextPeerNoSkip(bs, cur) ==
  IF Len(bs) = 0 THEN NoPeer ELSE bs[NextIndex(bs, cur) + 1]

GetNextPeer(bs, cur) ==
  IF Len(bs) = 0 THEN NoPeer
  ELSE LET order == ScanOrder(bs, cur)
           live  == { k \in 1..Len(bs) : bs[order[k]].Alive }
       IN  IF live = {} THEN NoPeer ELSE bs[order[Min(live)]]

CursorStuck(bs, cur) == cur

\* the counter after the call's atomic increment (no call on an empty pool)
CursorAfter(bs, cur) == IF Len(bs) = 0 THEN cur ELSE cur + 1

\* ------------------------------------------------------------ request context
DefaultAttempts == 1
DefaultRetry    == 0
MaxAttempts     == 3
MaxRetries      == 3

AttemptsExhaustedLate(a) == a > MaxAttempts + 1

\* LB: if attempts > 3
AttemptsExhausted(a) == a > MaxAttempts

CanRetryOnceMore(rt) == rt < MaxRetries + 1

CanRetryTwice(rt) == rt < MaxRetries - 1

\* ErrorHandler: if retries < 3
CanRetry(rt) == rt < MaxRetries

\* what a GetNextPeer() call saw: whether any backend was alive, whether the
\* returned one was, and whether the scan passed over a dead backend
NoPick == [any |-> FALSE, alive |-> FALSE, skipped |-> FALSE, none |-> FALSE]

Observe(bs, cur, p) ==
  [any     |-> AnyAlive(bs),
   alive   |-> p.Alive,
   skipped |-> p # NoPeer /\ p # bs[NextIndex(bs, cur) + 1],
   none    |-> p = NoPeer]

\* main(): wg.Add(3)
WgAdd == 3

\* ------------------------------------------------------------ Init
InitReq ==
  /\ pc         = [r \in Reqs |-> "routing"]
  /\ attempts   = [r \in Reqs |-> DefaultAttempts]
  /\ retries    = [r \in Reqs |-> DefaultRetry]
  /\ peer       = [r \in Reqs |-> NoPeer]
  /\ response   = [r \in Reqs |-> "none"]
  /\ delivered  = [r \in Reqs |-> 0]
  /\ selections = [r \in Reqs |-> 0]
  /\ forwards   = [r \in Reqs |-> 0]
  /\ pick       = [r \in Reqs |-> NoPick]

InitHc ==
  /\ hcPc = "idle"
  /\ hcList = <<>>
  /\ hcPassed = {}
  /\ hcRemarked = {}
  /\ failedOver = {}

InitReload ==
  /\ rlPc     = [h \in Handlers |-> "idle"]
  /\ rlBody   = [h \in Handlers |-> [json |-> FALSE, urls |-> <<>>]]
  /\ rlIdx    = [h \in Handlers |-> 0]
  /\ rlStatus = [h \in Handlers |-> 0]
  /\ rlOld    = [h \in Handlers |-> {}]
  /\ rlAdded  = [h \in Handlers |-> {}]

\* main(): addServerToPool(cfg.Urls) on the empty pool, every backend Alive
InitPool ==
  \E cfg \in InitConfigs :
    /\ backends = [k \in 1..Len(cfg) |-> NewBackend(cfg[k], k)]
    /\ nextId = Len(cfg) + 1
    /\ cursor = 0
    /\ crashed = FALSE

\* main() is in wg.Wait(): wg.Add(3) done, every task started with its wg
InitMain ==
  /\ ctxDone = FALSE
  /\ tick = FALSE
  /\ mainPc = "waiting"
  /\ mainWg = WgAdd
  /\ hcWg = WgAdd
  /\ stopPc = [s \in StopTasks |-> "waiting"]
  /\ stopWg = [s \in StopTasks |-> WgAdd]

Init == InitPool /\ InitReq /\ InitHc /\ InitReload /\ trace = <<>> /\ InitMain

\* ------------------------------------------------------------ LB
Respond(r, code) ==
  /\ response'  = [response EXCEPT ![r] = code]
  /\ delivered' = [delivered EXCEPT ![r] = @ + 1]
  /\ pc'        = [pc EXCEPT ![r] = "done"]

\* LB, attempts > 3: "Max attempts reached, terminating"
Terminate(r) ==
  /\ Respond(r, "503")
  /\ UNCHANGED <<cursor, attempts, retries, peer, selections, forwards, pick>>

\* LB, peer != nil: peer.ReverseProxy.ServeHTTP(w, r) starts
Forward(r, p) ==
  /\ pc' = [pc EXCEPT ![r] = "forwarding"]
  /\ peer' = [peer EXCEPT ![r] = p]
  /\ forwards' = [forwards EXCEPT ![r] = 1]
  /\ UNCHANGED <<attempts, retries, response, delivered>>

UnavailableRetry(r) ==
  /\ attempts' = [attempts EXCEPT ![r] = @ + 1]
  /\ UNCHANGED <<pc, retries, peer, forwards, response, delivered>>

\* LB, peer == nil: http.Error(w, "Service not available", 503)
Unavailable(r) ==
  /\ Respond(r, "503")
  /\ UNCHANGED <<attempts, retries, peer, forwards>>

LB(r) ==
  /\ ~crashed
  /\ pc[r] = "routing"
  /\ IF AttemptsExhausted(attempts[r])
     THEN Terminate(r)
     ELSE LET p == GetNextPeer(backends, cursor)
          IN  /\ cursor' = CursorAfter(backends, cursor)
              /\ selections' = [selections EXCEPT ![r] = @ + 1]
              /\ pick' = [pick EXCEPT ![r] = Observe(backends, cursor, p)]
              /\ IF p # NoPeer THEN Forward(r, p) ELSE Unavailable(r)
  /\ UNCHANGED <<backends, nextId, crashed>>
  /\ UNCHANGED <<hcVars, rlVars, failedOver, trace, sdVars>>

\* peer.ReverseProxy.ServeHTTP succeeds: the upstream response is proxied
ForwardOK(r) ==
  /\ ~crashed
  /\ pc[r] = "forwarding"
  /\ Respond(r, "200")
  /\ UNCHANGED <<attempts, retries, peer, selections, forwards, pick>>
  /\ UNCHANGED <<poolVars, hcVars, rlVars, failedOver, trace, sdVars>>

ErrorHandlerRaw(r) ==
  /\ ~crashed
  /\ pc[r] = "forwarding"
  /\ Respond(r, "502")
  /\ UNCHANGED <<attempts, retries, peer, selections, forwards, pick>>
  /\ UNCHANGED <<poolVars, hcVars, rlVars, failedOver, trace, sdVars>>

\* the forward fails and proxy.ErrorHandler runs
ErrorHandler(r) ==
  /\ ~crashed
  /\ pc[r] = "forwarding"
  /\ IF CanRetry(retries[r])
     THEN /\ retries'  = [retries EXCEPT ![r] = @ + 1]
          /\ forwards' = [forwards EXCEPT ![r] = @ + 1]
          /\ UNCHANGED <<backends, attempts, pc, failedOver, hcRemarked>>
     ELSE LET k == FindByURL(backends, peer[r].URL)
              hit == IF k = 0 THEN {} ELSE {backends[k].id}
          IN  /\ backends' = MarkBackendStatus(backends, peer[r].URL, FALSE)
              /\ attempts' = [attempts EXCEPT ![r] = @ + 1]
              /\ pc' = [pc EXCEPT ![r] = "routing"]
              /\ failedOver' = failedOver \cup hit
              /\ hcRemarked' = IF hcPc = "running"
                               THEN hcRemarked \cup (hit \cap hcPassed)
                               ELSE hcRemarked
              /\ UNCHANGED <<retries, forwards>>
  /\ UNCHANGED <<cursor, nextId, crashed, peer, response, delivered,
                 selections, pick>>
  /\ UNCHANGED <<hcPc, hcList, hcPassed, rlVars, trace, sdVars>>

\* ------------------------------------------------------------ HealthCheck
\* <-t.C: a cycle starts; serverPool.HealthCheck() ranges over the backends
\* after ctx is cancelled the select still takes a tick that is buffered in t.C
HealthCheckTick ==
  /\ ~crashed
  /\ hcPc = "idle"
  /\ ctxDone => tick
  /\ tick' = FALSE
  /\ hcPc' = "running"
  /\ hcList' = [k \in 1..Len(backends) |-> backends[k].id]
  /\ hcPassed' = {}
  /\ hcRemarked' = {}
  /\ UNCHANGED <<poolVars, reqVars, rlVars, failedOver, trace>>
  /\ UNCHANGED <<ctxDone, hcWg, stopPc, stopWg, mainPc, mainWg>>

\* one iteration of serverPool.HealthCheck(): probe, then SetAlive(result)
HealthCheckProbe ==
  /\ ~crashed
  /\ hcPc = "running"
  /\ hcList # <<>>
  /\ \E ok \in BOOLEAN :
       LET i == Head(hcList)
       IN  /\ backends' = SetAliveId(backends, i, ok)
           /\ hcPassed' = IF ok /\ i \in failedOver /\ i \in Ids(backends)
                          THEN hcPassed \cup {i} ELSE hcPassed
           /\ failedOver' = IF ok THEN failedOver \ {i} ELSE failedOver
  /\ hcList' = Tail(hcList)
  /\ UNCHANGED <<cursor, nextId, crashed, reqVars, rlVars, trace, sdVars>>
  /\ UNCHANGED <<hcPc, hcRemarked>>

\* serverPool.HealthCheck() returns: "Health check completed"
HealthCheckDone ==
  /\ ~crashed
  /\ hcPc = "running"
  /\ hcList = <<>>
  /\ hcPc' = "idle"
  /\ UNCHANGED <<poolVars, reqVars, rlVars, failedOver, trace, sdVars>>
  /\ UNCHANGED <<hcList, hcPassed, hcRemarked>>

\* ------------------------------------------------------------ UpdateConfig
\* url.Parse(tok) returns an error
ParseFails(tok) == tok = BadUrl

Finish(h, code) ==
  /\ rlPc' = [rlPc EXCEPT ![h] = "done"]
  /\ rlStatus' = [rlStatus EXCEPT ![h] = code]

\* PUT /config up to and including serverPool.RemoveAllBackend()
UpdateConfig(h) ==
  /\ ~crashed
  /\ rlPc[h] = "idle"
  /\ \E body \in Payloads :
       /\ rlBody' = [rlBody EXCEPT ![h] = body]
       /\ IF ~body.json
          THEN /\ Finish(h, 400)
               /\ UNCHANGED <<backends, failedOver, rlIdx, rlOld>>
          ELSE /\ backends' = RemoveAllBackend(backends)
               /\ failedOver' = {}
               /\ rlOld' = [rlOld EXCEPT ![h] = Ids(backends)]
               /\ rlIdx' = [rlIdx EXCEPT ![h] = 1]
               /\ IF Len(body.urls) = 0
                  THEN Finish(h, 200)
                  ELSE /\ rlPc' = [rlPc EXCEPT ![h] = "adding"]
                       /\ UNCHANGED rlStatus
  /\ UNCHANGED <<cursor, nextId, crashed, rlAdded, reqVars, hcVars, trace, sdVars>>

\* one iteration of addServerToPool's loop inside UpdateConfig
AddServerToPool(h) ==
  /\ ~crashed
  /\ rlPc[h] = "adding"
  /\ LET tok == rlBody[h].urls[rlIdx[h]]
     IN  IF ParseFails(tok)
         THEN /\ crashed' = TRUE
              /\ UNCHANGED <<backends, nextId, rlPc, rlIdx, rlStatus, rlAdded>>
         ELSE /\ backends' = AddBackend(backends, NewBackend(tok, nextId))
              /\ nextId' = nextId + 1
              /\ rlAdded' = [rlAdded EXCEPT ![h] = @ \cup {nextId}]
              /\ rlIdx' = [rlIdx EXCEPT ![h] = @ + 1]
              /\ IF rlIdx[h] = Len(rlBody[h].urls)
                 THEN Finish(h, 200)
                 ELSE UNCHANGED <<rlPc, rlStatus>>
              /\ UNCHANGED crashed
  /\ UNCHANGED <<cursor, rlBody, rlOld, reqVars, hcVars, failedOver, trace, sdVars>>

\* ------------------------------------------------------------ specification
Next ==
  \/ \E r \in Reqs : LB(r)
  \/ \E r \in Reqs : ForwardOK(r)
  \/ \E r \in Reqs : ErrorHandler(r)
  \/ HealthCheckTick
  \/ HealthCheckProbe
  \/ HealthCheckDone

Spec == Init /\ [][Next]_vars

\* every step of a request ends: LB returns, and a forward comes back from the
\* upstream or from the transport's error within its timeout
Fairness ==
  \A r \in Reqs :
    /\ WF_vars(LB(r))
    /\ WF_vars(ForwardOK(r) \/ ErrorHandler(r))

FairSpec == Spec /\ Fairness

\* reloads racing with each other and with one request
ReloadReqs == {1}

NextReload ==
  \/ \E h \in Handlers : UpdateConfig(h)
  \/ \E h \in Handlers : AddServerToPool(h)
  \/ \E r \in ReloadReqs : LB(r)
  \/ \E r \in ReloadReqs : ForwardOK(r)
  \/ \E r \in ReloadReqs : ErrorHandler(r)

SpecReload == Init /\ [][NextReload]_vars

\* ------------------------------------------------------------ shutdown
\* the ticker fires while the loop is inside serverPool.HealthCheck()
TickBuffered ==
  /\ ~crashed
  /\ hcPc = "running"
  /\ ~tick
  /\ tick' = TRUE
  /\ UNCHANGED <<poolVars, reqVars, hcVars, rlVars, failedOver, trace>>
  /\ UNCHANGED <<ctxDone, hcWg, stopPc, stopWg, mainPc, mainWg>>

\* os.Interrupt / SIGTERM: signal.NotifyContext cancels ctx
Shutdown ==
  /\ ~crashed
  /\ ~ctxDone
  /\ ctxDone' = TRUE
  /\ UNCHANGED <<poolVars, reqVars, hcVars, rlVars, failedOver, trace>>
  /\ UNCHANGED <<tick, hcWg, stopPc, stopWg, mainPc, mainWg>>

\* HealthCheck, case <-ctx.Done(): return, and the deferred wg.Done()
HealthCheckStop ==
  /\ ~crashed
  /\ hcPc = "idle"
  /\ ctxDone
  /\ hcPc' = "stopped"
  /\ hcWg' = hcWg - 1
  /\ UNCHANGED <<poolVars, reqVars, rlVars, failedOver, trace>>
  /\ UNCHANGED <<hcList, hcPassed, hcRemarked>>
  /\ UNCHANGED <<ctxDone, tick, stopPc, stopWg, mainPc, mainWg>>

\* stopServer: <-ctx.Done(), server.Shutdown, and the deferred wg.Done()
StopServer(s) ==
  /\ ~crashed
  /\ stopPc[s] = "waiting"
  /\ ctxDone
  /\ stopPc' = [stopPc EXCEPT ![s] = "done"]
  /\ stopWg' = [stopWg EXCEPT ![s] = @ - 1]
  /\ UNCHANGED <<poolVars, reqVars, hcVars, rlVars, failedOver, trace>>
  /\ UNCHANGED <<ctxDone, tick, hcWg, mainPc, mainWg>>

\* wg.Wait() returns when the counter of main's wg is zero
WaitReturns(n) == n = 0

\* main() from wg.Add(3) on: the go statements hand each task the value of wg,
\* then wg.Wait() and the return
Main ==
  /\ ~crashed
  /\ IF mainPc = "starting"
     THEN /\ mainWg' = WgAdd
          /\ hcWg' = WgAdd
          /\ stopWg' = [s \in StopTasks |-> WgAdd]
          /\ hcPc' = "idle"
          /\ stopPc' = [s \in StopTasks |-> "waiting"]
          /\ mainPc' = "waiting"
     ELSE /\ mainPc = "waiting"
          /\ WaitReturns(mainWg)
          /\ mainPc' = "exited"
          /\ UNCHANGED <<mainWg, hcWg, stopWg, hcPc, stopPc>>
  /\ UNCHANGED <<poolVars, reqVars, rlVars, failedOver, trace>>
  /\ UNCHANGED <<hcList, hcPassed, hcRemarked, ctxDone, tick>>

\* main() has configured the pool and the servers and is about to start its tasks
InitShutdown ==
  /\ InitPool /\ InitReq /\ InitReload /\ trace = <<>>
  /\ hcPc = "unstarted"
  /\ hcList = <<>>
  /\ hcPassed = {}
  /\ hcRemarked = {}
  /\ failedOver = {}
  /\ ctxDone = FALSE
  /\ tick = FALSE
  /\ mainPc = "starting"
  /\ mainWg = 0
  /\ hcWg = 0
  /\ stopPc = [s \in StopTasks |-> "unstarted"]
  /\ stopWg = [s \in StopTasks |-> 0]

NextShutdown ==
  \/ Main
  \/ Shutdown
  \/ TickBuffered
  \/ HealthCheckTick
  \/ HealthCheckProbe
  \/ HealthCheckDone
  \/ HealthCheckStop
  \/ \E s \in StopTasks : StopServer(s)

SpecShutdown == InitShutdown /\ [][NextShutdown]_vars

\* ------------------------------------------------------------ sequential pool calls
Event(op, u, alive) == [op |-> op, url |-> u, alive |-> alive]

Marks(t) == Cardinality({ k \in 1..Len(t) : t[k].op = "mark" })

\* peer := serverPool.GetNextPeer(), one call after the other
PoolGet ==
  /\ Len(trace) < MaxTrace
  /\ LET p == GetNextPeer(backends, cursor)
     IN  trace' = Append(trace, Event("get", p.URL, p.Alive))
  /\ cursor' = CursorAfter(backends, cursor)
  /\ UNCHANGED <<backends, nextId, crashed, reqVars, hcVars, rlVars, failedOver, sdVars>>

\* serverPool.MarkBackendStatus(u, alive) between two calls
PoolMark ==
  /\ Len(trace) < MaxTrace
  /\ Marks(trace) < MaxMarks
  /\ \E u \in Addrs, alive \in BOOLEAN :
       /\ backends' = MarkBackendStatus(backends, u, alive)
       /\ trace' = Append(trace, Event("mark", u, alive))
  /\ UNCHANGED <<cursor, nextId, crashed, reqVars, hcVars, rlVars, failedOver, sdVars>>

NextPool == PoolGet \/ PoolMark

SpecPool == Init /\ [][NextPool]_vars

\* ------------------------------------------------------------ helpers of the properties
Cursors(bs) == 0..(Len(bs) - 1)

AllDead(bs) == ~AnyAlive(bs)

AllAlive(bs) == \A k \in 1..Len(bs) : bs[k].Alive

\* request r takes a step of LB
LBStep(r) ==
  /\ pc[r] = "routing"
  /\ pc'[r] # pc[r] \/ selections'[r] # selections[r] \/ attempts'[r] # attempts[r]

\* a forward of request r ends in something other than a proxied response
FailureStep(r) ==
  /\ pc[r] = "forwarding"
  /\ ~(pc'[r] = "done" /\ response'[r] = "200")
  /\ pc'[r] # pc[r] \/ retries'[r] # retries[r] \/ response'[r] # response[r]

IsRetry(r) ==
  /\ pc'[r] = "forwarding"
  /\ retries'[r] = retries[r] + 1
  /\ attempts'[r] = attempts[r]
  /\ peer'[r] = peer[r]
  /\ delivered'[r] = 0

IsFailover(r) ==
  /\ pc'[r] = "routing"
  /\ attempts'[r] = attempts[r] + 1
  /\ attempts'[r] <= 3
  /\ ~IsAliveId(backends', peer[r].id)
  /\ delivered'[r] = 0

\* the request is left at the top of LB with attempts > 3: its next step is the 503
IsTerminal(r) ==
  /\ pc'[r] = "routing"
  /\ attempts'[r] = attempts[r] + 1
  /\ attempts'[r] > 3
  /\ delivered'[r] = 0

ExactlyOne(a, b, c) ==
  \/ a /\ ~b /\ ~c
  \/ ~a /\ b /\ ~c
  \/ ~a /\ ~b /\ c

\* ------------------------------------------------------------ C1
\* C1: in every reachable pool state GetNextPeer() returns an alive backend of
\* the pool whenever at least one backend is alive, whatever the cursor is, and
\* every selection LB made while some backend was alive returned an alive one.
C1_SkipDead ==
  /\ AnyAlive(backends) =>
       \A c \in Cursors(backends) \cup {cursor} :
         /\ GetNextPeer(backends, c).Alive
         /\ GetNextPeer(backends, c).id \in Ids(backends)
  /\ \A r \in Reqs : (selections[r] > 0 /\ pick[r].any) => pick[r].alive

\* a request is being forwarded to a backend found by scanning past a dead one
C1_Witness ==
  \E r \in Reqs : pc[r] = "forwarding" /\ pick[r].skipped /\ pick[r].alive

\* ------------------------------------------------------------ C2
\* C2: a request makes at most 3 selections; once its attempts exceed 3 it is at
\* the top of LB or answered, it has made exactly 3 selections, and its answer
\* is the 503.
C2_AttemptBound ==
  \A r \in Reqs :
    /\ selections[r] <= 3
    /\ attempts[r] <= 4
    /\ attempts[r] > 3 =>
         /\ pc[r] \in {"routing", "done"}
         /\ selections[r] = 3
         /\ pc[r] = "done" => response[r] = "503"

\* a request failed over three times and was answered 503 after 3 selections
C2_Witness ==
  \E r \in Reqs :
    attempts[r] = 4 /\ pc[r] = "done" /\ response[r] = "503" /\ selections[r] = 3

\* ------------------------------------------------------------ C3
\* C3: whenever the failover path has just marked a request's backend down (the
\* request is back at the top of LB with attempts > 1), that backend had
\* received exactly 4 forwards (1 + 3 retries) in that routing cycle.
C3_RetryBound ==
  \A r \in Reqs : (pc[r] = "routing" /\ attempts[r] > 1) => forwards[r] = 4

\* ------------------------------------------------------------ C4
\* C4: when every backend is dead GetNextPeer() returns none for every cursor,
\* and a step of LB in such a state answers 503 at once, with the request's
\* attempts, retries, peer and forward count as they were.
C4_AllDeadFailsFast ==
  [][ \A r \in Reqs :
        (LBStep(r) /\ AllDead(backends)) =>
          /\ \A c \in Cursors(backends) \cup {cursor} :
               GetNextPeer(backends, c) = NoPeer
          /\ pc'[r] = "done"
          /\ response'[r] = "503"
          /\ delivered'[r] = 1
          /\ attempts'[r] = attempts[r]
          /\ retries'[r] = retries[r]
          /\ peer'[r] = peer[r]
          /\ forwards'[r] = forwards[r] ]_vars

\* a request whose selection found a non-empty pool all dead was answered 503
C4_Witness ==
  \E r \in Reqs :
    /\ pc[r] = "done" /\ response[r] = "503"
    /\ pick[r].none /\ ~pick[r].any
    /\ attempts[r] <= 3
    /\ Len(backends) > 0

\* ------------------------------------------------------------ C5
\* what the client of each request has been sent
C5_Outcomes ==
  \A r \in Reqs :
    /\ response[r] \in {"none", "200", "503"}
    /\ delivered[r] <= 1
    /\ (pc[r] = "done") <=> (delivered[r] = 1)
    /\ (response[r] = "none") <=> (delivered[r] = 0)

\* C5: a request is answered at most once, only with a proxied response or a
\* 503, and it is done exactly when it has been answered; every failed forward
\* is exactly one of a same-backend retry, a failover, or the exhaustion whose
\* next step is the 503.
C5_FailureAbsorption ==
  /\ []C5_Outcomes
  /\ [][ \A r \in Reqs :
           /\ FailureStep(r) => ExactlyOne(IsRetry(r), IsFailover(r), IsTerminal(r))
           /\ (LBStep(r) /\ attempts[r] > 3) =>
                (pc'[r] = "done" /\ response'[r] = "503") ]_vars

\* a request whose forwards failed through retries and failovers got its 503
C5_Witness ==
  \E r \in Reqs :
    /\ pc[r] = "done" /\ response[r] = "503" /\ delivered[r] = 1
    /\ retries[r] = 3 /\ attempts[r] = 4

\* ------------------------------------------------------------ C6
Max(S) == CHOOSE x \in S : \A y \in S : x >= y

LastMark(t) ==
  LET ms == { k \in 1..Len(t) : t[k].op = "mark" }
  IN  IF ms = {} THEN 0 ELSE Max(ms)

\* addresses returned by the calls made since the last status change
GetsSince(t) == [k \in 1..(Len(t) - LastMark(t)) |-> t[LastMark(t) + k].url]

Count(g, u) == Cardinality({ k \in 1..Len(g) : g[k] = u })

PoolAB == Len(backends) = 2 /\ backends[1].URL = "A" /\ backends[2].URL = "B"

Get(u) == Event("get", u, TRUE)

\* the scenario as the claim has it
ScenarioClaimed ==
  << Get("A"), Get("B"), Get("A"), Get("B"),
     Event("mark", "A", FALSE), Get("B"), Get("B"), Get("B"),
     Event("mark", "A", TRUE), Get("A") >>

\* the scenario with the call after the revival, and one call more
ScenarioAdvancing ==
  << Get("A"), Get("B"), Get("A"), Get("B"),
     Event("mark", "A", FALSE), Get("B"), Get("B"), Get("B"),
     Event("mark", "A", TRUE), Get("B"), Get("A") >>

\* t makes the calls and status changes of (a prefix of) scenario
Follows(t, scenario) ==
  /\ Len(t) <= Len(scenario)
  /\ \A k \in 1..Len(t) :
       /\ t[k].op = scenario[k].op
       /\ t[k].op = "mark" => t[k] = scenario[k]

Returns(t, scenario) ==
  \A k \in 1..Len(t) : t[k].op = "get" => t[k] = scenario[k]

\* C7 as claimed: on the fresh pool [A, B] the calls return A, B, A, B; with A
\* marked dead B, B, B; with A marked alive again the very next call returns A.
C7_ScenarioClaimed ==
  (PoolAB /\ Follows(trace, ScenarioClaimed)) => Returns(trace, ScenarioClaimed)

\* C7 amended: as claimed up to the revival of A; the very next call returns B
\* (the cursor has reached 7) and the call after that one returns A.
C7_ScenarioAdvancing ==
  (PoolAB /\ Follows(trace, ScenarioAdvancing)) => Returns(trace, ScenarioAdvancing)

\* the whole scenario has been run
C7_Witness ==
  PoolAB /\ Follows(trace, ScenarioAdvancing) /\ Len(trace) = Len(ScenarioAdvancing)

\* ------------------------------------------------------------ C8
\* GetNextPeer() returns backend i for some cursor value
Eligible(bs, i) == \E c \in Cursors(bs) : GetNextPeer(bs, c).id = i

\* the cycle has probed every backend and is about to return
CycleCompleting == hcPc = "running" /\ hcList = <<>>

\* C8 as claimed: when a cycle completes, every backend that had been marked
\* down by failover and passed its probe in this cycle is alive and eligible.
C8_HealedAtCompletion ==
  CycleCompleting =>
    \A i \in hcPassed \cap Ids(backends) :
      IsAliveId(backends, i) /\ Eligible(backends, i)

\* C8 amended: throughout the cycle, from its probe on and still when the cycle
\* completes, such a backend is alive and eligible unless the failover path has
\* marked it down again since its probe.
C8_SelfHealing ==
  hcPc = "running" =>
    \A i \in (hcPassed \ hcRemarked) \cap Ids(backends) :
      IsAliveId(backends, i) /\ Eligible(backends, i)

\* a cycle completes with a revived backend behind a live one in the scan
C8_Witness ==
  /\ CycleCompleting
  /\ \E i \in hcPassed \ hcRemarked :
       /\ IsAliveId(backends, i)
       /\ GetNextPeer(backends, cursor).id # i

\* ------------------------------------------------------------ C9
\* handler h completes its reload with 200 in this step
Completes(h) == rlPc[h] # "done" /\ rlPc'[h] = "done" /\ rlStatus'[h] = 200

\* C9: when a reload completes, whatever GetNextPeer() returns is a backend this
\* reload added, and none that was in the pool before the reload.
C9_ReloadReplaces ==
  [][ \A h \in Handlers :
        Completes(h) =>
          \A c \in Cursors(backends') :
            LET p == GetNextPeer(backends', c)
            IN  p = NoPeer \/ (p.id \in rlAdded'[h] /\ p.id \notin rlOld[h]) ]_vars

\* ------------------------------------------------------------ C10
Malformed(body) ==
  \/ ~body.json
  \/ \E k \in 1..Len(body.urls) : ParseFails(body.urls[k])

\* handler h reads its request body in this step
Begins(h) == rlPc[h] = "idle" /\ rlPc'[h] # "idle"

\* C10: a reload whose payload is malformed, in its JSON or in one of its URLs,
\* is answered 400 with the pool as it was.
C10_ParseFailureUntouched ==
  [][ \A h \in Handlers :
        (Begins(h) /\ Malformed(rlBody'[h])) =>
          (rlStatus'[h] = 400 /\ backends' = backends) ]_vars

\* ------------------------------------------------------------ C11
\* C11: the pool configured at startup never becomes empty, neither while a
\* reload is being applied nor after it.
C11_PoolNonEmpty == Len(backends) >= 1

\* ------------------------------------------------------------ C12
\* C12: once ctx has been cancelled the HealthCheck loop starts no further
\* cycle, whether or not a tick is waiting in t.C.
C12_NoCycleAfterShutdown ==
  [][ ctxDone => ~(hcPc = "idle" /\ hcPc' = "running") ]_vars

\* ------------------------------------------------------------ C18
AllTasksFinished ==
  /\ ctxDone
  /\ hcPc = "stopped"
  /\ \A s \in StopTasks : stopPc[s] = "done"

\* C18: once the HealthCheck task and both stopServer tasks have finished and
\* called wg.Done(), main's wg.Wait() can return.
C18_ShutdownCompletes == AllTasksFinished => WaitReturns(mainWg)

\* ------------------------------------------------------------ C13
\* C13: the first forward to a backend selected after a failover is made with
\* retries = 0.
C13_RetriesReset ==
  \A r \in Reqs :
    (pc[r] = "forwarding" /\ attempts[r] > 1 /\ forwards[r] = 1) => retries[r] = 0

\* ------------------------------------------------------------ C14
C14_Bounds ==
  \A r \in Reqs :
    /\ selections[r] <= 3
    /\ forwards[r] <= 4
    /\ attempts[r] <= 4
    /\ retries[r] <= 3

\* C14: every request is eventually answered, whatever its forwards do and
\* whatever the health checker revives meanwhile, after at most 3 selections
\* and at most 4 forwards per selection, with attempts <= 4 and retries <= 3.
C14_RequestTermination ==
  /\ []C14_Bounds
  /\ \A r \in Reqs : <>(pc[r] = "done")

\* a request whose every forward failed was answered after its 3rd selection,
\* with a health-check cycle having revived a backend meanwhile
C14_Witness ==
  \E r \in Reqs :
    /\ pc[r] = "done" /\ response[r] = "503"
    /\ selections[r] = 3 /\ attempts[r] = 4 /\ retries[r] = 3
    /\ hcPc = "running" /\ AnyAlive(backends)

\* ------------------------------------------------------------ C16
\* C16: a failed forward with retries < 3 adds 1 to that request's retries and
\* forwards to the same backend again; it makes no selection and leaves the
\* request's attempts, the other requests' counters, the cursor and every
\* backend's liveness as they were.
C16_RetryFrame ==
  [][ \A r \in Reqs :
        (FailureStep(r) /\ retries[r] < 3) =>
          /\ retries'[r] = retries[r] + 1
          /\ pc'[r] = "forwarding"
          /\ peer'[r] = peer[r]
          /\ forwards'[r] = forwards[r] + 1
          /\ attempts' = attempts
          /\ selections' = selections
          /\ \A q \in Reqs \ {r} : retries'[q] = retries[q]
          /\ cursor' = cursor
          /\ backends' = backends ]_vars

\* a request is in its third forward to the backend it first selected
C16_Witness ==
  \E r \in Reqs :
    /\ pc[r] = "forwarding" /\ retries[r] = 2 /\ forwards[r] = 3
    /\ attempts[r] = 1 /\ selections[r] = 1

\* ------------------------------------------------------------ C15
\* handlers between their RemoveAllBackend call and the end of addServerToPool
InReload == { h \in Handlers : rlPc[h] = "adding" }

URLs(bs) == [k \in 1..Len(bs) |-> bs[k].URL]

\* C15: at most one reload is between its RemoveAllBackend and the end of its
\* addServerToPool, and once every reload has finished the pool is the list of
\* one of the reloads that were applied.
C15_ReloadsSerialized ==
  /\ Cardinality(InReload) <= 1
  /\ ( /\ \A h \in Handlers : rlPc[h] = "done"
       /\ \E h \in Handlers : rlStatus[h] = 200 )
     => \E h \in Handlers : rlStatus[h] = 200 /\ URLs(backends) = rlBody[h].urls

\* ------------------------------------------------------------ C17
\* C17: no two backends of the pool have the same address.
C17_UniqueAddresses ==
  \A i, j \in 1..Len(backends) : backends[i].URL = backends[j].URL => i = j

\* ------------------------------------------------------------ C19
\* C19: in a run without health-check cycles, when a request that has failed
\* over selects again and the backend it failed on is still in the pool (no
\* reload has replaced the pool since), it selects another backend than that one.
C19_FailoverPicksDifferent ==
  [][ \A r \in Reqs :
        ( /\ LBStep(r) /\ attempts[r] > DefaultAttempts
          /\ pc'[r] = "forwarding"
          /\ peer[r].id \in Ids(backends) )
        => peer'[r].id # peer[r].id ]_vars

====
